------------------------------ MODULE Spec2Model ------------------------------
(***************************************************************************)
(* Thread-invariance / affine classification of LLVM values, as implemented *)
(* by analysis::AffineInstructionSet (AffineInstructionSet.cpp).            *)
(*                                                                         *)
(* The value graph is an input of the analysis.  It is modelled as a fixed *)
(* table of nodes (Graph) holding every node shape the classification      *)
(* rules distinguish.  The four membership sets of the class are the state;*)
(* the constructor gives the initial state and every public query is one   *)
(* action.  The recursive predicates are operators that thread the sets    *)
(* through the recursion exactly in the order the C++ evaluates them.      *)
(***************************************************************************)
EXTENDS Integers, Sequences, FiniteSets, TLC

(***************************************************************************)
(* Bounds of the model.                                                    *)
(***************************************************************************)
\* Deepest recursion a query is followed to; a call nested deeper than this
\* is reported as not returning (field overflow of the threaded store).
RecursionLimit == 16

\* Number of queries a behaviour asks after construction.
MaxQueries == 3

(***************************************************************************)
(* The value graph (llvm::Value nodes), identified by small integers.      *)
(***************************************************************************)
Argument == [kind |-> "Argument", opcode |-> "", ops |-> <<>>, val |-> 0]

GlobalVariable == [kind |-> "GlobalVariable", opcode |-> "", ops |-> <<>>, val |-> 0]

ConstantInt(n) == [kind |-> "ConstantInt", opcode |-> "", ops |-> <<>>, val |-> n]

CastInst(opc, x) == [kind |-> "CastInst", opcode |-> opc, ops |-> <<x>>, val |-> 0]

LoadInst(p) == [kind |-> "LoadInst", opcode |-> "Load", ops |-> <<p>>, val |-> 0]

UnaryOther(x) == [kind |-> "UnaryInstruction", opcode |-> "ExtractValue", ops |-> <<x>>, val |-> 0]

BinaryOperator(opc, x, y) == [kind |-> "BinaryOperator", opcode |-> opc, ops |-> <<x, y>>, val |-> 0]

PHINode(x) == [kind |-> "PHINode", opcode |-> "PHI", ops |-> <<x>>, val |-> 0]

\* the special per-thread arguments (members of ThreadLocalArgument)
threadId_x == 1
threadId_y == 2
blockDim_x == 3
ptrThreadDescriptorArray == 4
\* a module-level global and an ordinary kernel argument
base == 5
arg == 6
\* integer literals
c2 == 7
c3 == 8
c4 == 9
c8 == 10
\* a chain of no-op casts around threadId_x
zext_tid == 11
inttoptr_zext_tid == 12
\* the index-scaling shapes
shl_tid_2 == 13
mul_tid_4 == 14
mul_4_tid == 15
shl_tid_3 == 16
mul_tid_8 == 17
shl_2_tid == 18
shl_cast_2 == 19
mul_cast_8 == 20
\* address arithmetic
addr == 21
\* arithmetic over literals, and parents of it
sum_c == 22
prod_c == 23
mul_sum_c == 24
add_shl_sum == 25
add_sum_shl == 26
add_mul8_c == 27
\* loads, another unary instruction, a cast that is not stripped
load_base == 28
load_arg == 29
bitcast_base == 30
extract_arg == 31
\* a loop-carried value: phi -> inc -> phi
phi == 32
inc == 33
\* a stripped cast written as an operand
zext_bdim == 34
add_zext_bdim == 35
\* an addition of a literal and an invariant product
add_c3_prod == 36
\* stripped casts around an addition of literals, an index scaling and a load
trunc_sum_c == 37
sext_shl_tid_2 == 38
zext_load_base == 39

Graph ==
  <<
     Argument,                                       \*  1 threadId_x
     Argument,                                       \*  2 threadId_y
     Argument,                                       \*  3 blockDim_x
     Argument,                                       \*  4 ptrThreadDescriptorArray
     GlobalVariable,                                 \*  5 base
     Argument,                                       \*  6 arg
     ConstantInt(2),                                 \*  7 c2
     ConstantInt(3),                                 \*  8 c3
     ConstantInt(4),                                 \*  9 c4
     ConstantInt(8),                                 \* 10 c8
     CastInst("ZExt", threadId_x),                   \* 11 zext_tid
     CastInst("IntToPtr", zext_tid),                 \* 12 inttoptr_zext_tid
     BinaryOperator("Shl", threadId_x, c2),          \* 13 shl_tid_2
     BinaryOperator("Mul", threadId_x, c4),          \* 14 mul_tid_4
     BinaryOperator("Mul", c4, threadId_x),          \* 15 mul_4_tid
     BinaryOperator("Shl", threadId_x, c3),          \* 16 shl_tid_3
     BinaryOperator("Mul", threadId_x, c8),          \* 17 mul_tid_8
     BinaryOperator("Shl", c2, threadId_x),          \* 18 shl_2_tid
     BinaryOperator("Shl", inttoptr_zext_tid, c2),   \* 19 shl_cast_2
     BinaryOperator("Mul", zext_tid, c8),            \* 20 mul_cast_8
     BinaryOperator("Add", base, shl_tid_2),         \* 21 addr
     BinaryOperator("Add", c2, c4),                  \* 22 sum_c
     BinaryOperator("Mul", c2, c4),                  \* 23 prod_c
     BinaryOperator("Mul", sum_c, c2),               \* 24 mul_sum_c
     BinaryOperator("Add", shl_tid_2, sum_c),        \* 25 add_shl_sum
     BinaryOperator("Add", sum_c, shl_tid_2),        \* 26 add_sum_shl
     BinaryOperator("Add", mul_tid_8, c8),           \* 27 add_mul8_c
     LoadInst(base),                                 \* 28 load_base
     LoadInst(arg),                                  \* 29 load_arg
     CastInst("BitCast", base),                      \* 30 bitcast_base
     UnaryOther(arg),                                \* 31 extract_arg
     PHINode(inc),                                   \* 32 phi
     BinaryOperator("Add", phi, c2),                 \* 33 inc
     CastInst("ZExt", blockDim_x),                   \* 34 zext_bdim
     BinaryOperator("Add", zext_bdim, c4),           \* 35 add_zext_bdim
     BinaryOperator("Add", c3, prod_c),              \* 36 add_c3_prod
     CastInst("Trunc", sum_c),                       \* 37 trunc_sum_c
     CastInst("SExt", shl_tid_2),                    \* 38 sext_shl_tid_2
     CastInst("ZExt", load_base) >>                  \* 39 zext_load_base

Values == DOMAIN Graph

getOperand(v, i) == Graph[v].ops[i + 1]

getOpcode(v) == Graph[v].opcode

\* a variant of the test below that takes only globals for Constants
isConstant_GlobalsOnly(v) == Graph[v].kind = "GlobalVariable"

\* llvm::dyn_cast<llvm::Constant>: literals and globals are both Constants
isConstant(v) == Graph[v].kind \in {"ConstantInt", "GlobalVariable"}

isConstantInt(v) == Graph[v].kind = "ConstantInt"

isCastInst(v) == Graph[v].kind = "CastInst"

isLoadInst(v) == Graph[v].kind = "LoadInst"

\* llvm::UnaryInstruction: casts, loads and the other one-operand instructions
isUnaryInstruction(v) == Graph[v].kind \in {"CastInst", "LoadInst", "UnaryInstruction"}

isBinaryOperator(v) == Graph[v].kind = "BinaryOperator"

\* cast->isIntegerCast() || PtrToIntInst::classof || IntToPtrInst::classof
isNoOpCast(v) ==
  /\ isCastInst(v)
  /\ getOpcode(v) \in {"ZExt", "SExt", "Trunc", "PtrToInt", "IntToPtr"}

\* a variant of the canonicalization below that strips nothing
walk_Identity(value) == value

RECURSIVE walk(_)
walk(value) == IF isNoOpCast(value) THEN walk(getOperand(value, 0)) ELSE value

(***************************************************************************)
(* State: the four sets of AffineInstructionSet and the construction input.*)
(***************************************************************************)
VARIABLES invariantValues, affineValues, variantValues, threadIds,
          varianceMap, usedThreadIds, returned, queries

sets == <<invariantValues, affineValues, variantValues, threadIds>>
vars == <<invariantValues, affineValues, variantValues, threadIds,
          varianceMap, usedThreadIds, returned, queries>>

\* The sets as one record, threaded through the recursion.  depth is the
\* deepest nesting reached so far and overflow says a call was nested deeper
\* than RecursionLimit; neither is read by the classification.
Store ==
  [inv |-> invariantValues, aff |-> affineValues, var |-> variantValues,
   tids |-> threadIds, depth |-> 0, overflow |-> FALSE]

Result(b, m) == [ret |-> b, m |-> m]

Enter(m, d) == [m EXCEPT !.depth = IF d > @ THEN d ELSE @]

Overflow(m) == Result(FALSE, [m EXCEPT !.overflow = TRUE])

_setAffine(m, value) == Result(TRUE, [m EXCEPT !.aff = @ \cup {value}])

\* a variant of the insertion below that also marks the stripped casts
\* wrapped around the value
_setInvariant_WithCasts(m, value) ==
  Result(TRUE, [m EXCEPT !.inv = @ \cup {value} \cup
                  {c \in Values : isNoOpCast(c) /\ getOperand(c, 0) = value}])

_setInvariant(m, value) == Result(TRUE, [m EXCEPT !.inv = @ \cup {value}])

_setVariant(m, value) == Result(FALSE, [m EXCEPT !.var = @ \cup {value}])

(***************************************************************************)
(* analysis::AffineInstructionSet::isThreadInvariant, isAffine and         *)
(* _isBinaryOperatorAffine.  Each returns [ret, m]: the boolean and the    *)
(* sets after the call.  d is the nesting depth of the call.               *)
(***************************************************************************)
RECURSIVE isThreadInvariant(_, _, _)
RECURSIVE isAffine(_, _, _)
RECURSIVE _isBinaryOperatorAffine(_, _, _)

\* a variant of the lookups below that forgets to consult the affine set
isThreadInvariantMemo_NoAffine(m, value) ==
  IF value \in m.inv THEN "true"
  ELSE IF value \in m.var THEN "false"
  ELSE IF value \in m.tids THEN "false"
  ELSE "miss"

\* the memo lookups of isThreadInvariant: "true", "false" or "miss"
isThreadInvariantMemo(m, value) ==
  IF value \in m.inv THEN "true"
  ELSE IF value \in m.aff THEN "false"
  ELSE IF value \in m.var THEN "false"
  ELSE IF value \in m.tids THEN "false"
  ELSE "miss"

\* the cast branch: the cast is invariant when its operand is
isThreadInvariantCast(m, cast, d) ==
  LET r == isThreadInvariant(m, getOperand(cast, 0), d + 1)
  IN  IF r.ret THEN _setInvariant(r.m, cast) ELSE Result(FALSE, r.m)

\* the load branch: the load is invariant when its pointer operand is
isThreadInvariantLoad(m, load, d) ==
  LET r == isThreadInvariant(m, getOperand(load, 0), d + 1)
  IN  IF r.ret THEN _setInvariant(r.m, load) ELSE Result(FALSE, r.m)

\* a variant of the branch below that is satisfied with one invariant operand
isThreadInvariantBinary_Either(m, binary, d) ==
  LET operand0 == isThreadInvariant(m, getOperand(binary, 0), d + 1)
      operand1 == isThreadInvariant(operand0.m, getOperand(binary, 1), d + 1)
  IN  IF operand0.ret \/ operand1.ret
      THEN _setInvariant(_setInvariant(operand1.m, getOperand(binary, 0)).m,
                         getOperand(binary, 1))
      ELSE Result(FALSE, operand1.m)

\* a variant of the branch below that caches the binary node, as the cast and
\* load branches cache theirs
isThreadInvariantBinary_CacheNode(m, binary, d) ==
  LET operand0 == isThreadInvariant(m, getOperand(binary, 0), d + 1)
      operand1 == isThreadInvariant(operand0.m, getOperand(binary, 1), d + 1)
  IN  IF operand0.ret /\ operand1.ret
      THEN _setInvariant(operand1.m, binary)
      ELSE Result(FALSE, operand1.m)

\* the binary-operator branch: both operands are evaluated, in order; when
\* both are invariant the two operands (as written) are inserted, not binary
isThreadInvariantBinary(m, binary, d) ==
  LET operand0 == isThreadInvariant(m, getOperand(binary, 0), d + 1)
      operand1 == isThreadInvariant(operand0.m, getOperand(binary, 1), d + 1)
  IN  IF operand0.ret /\ operand1.ret
      THEN _setInvariant(_setInvariant(operand1.m, getOperand(binary, 0)).m,
                         getOperand(binary, 1))
      ELSE Result(FALSE, operand1.m)

\* a variant of the dispatch below that follows the operand of every other
\* node kind as it does for a cast
isThreadInvariantRules_FollowAll(m, value, d) ==
  IF isConstant(value) THEN _setInvariant(m, value)
  ELSE IF isUnaryInstruction(value)
    THEN IF isCastInst(value) THEN isThreadInvariantCast(m, value, d)
         ELSE IF isLoadInst(value) THEN isThreadInvariantLoad(m, value, d)
         ELSE Result(FALSE, m)
  ELSE IF isBinaryOperator(value) THEN isThreadInvariantBinary(m, value, d)
  ELSE IF Graph[value].ops # <<>> THEN isThreadInvariantCast(m, value, d)
  ELSE Result(FALSE, m)

\* a variant of the dispatch below that memoizes the negative answer for a
\* node kind it does not recognize
isThreadInvariantRules_MemoVariant(m, value, d) ==
  IF isConstant(value) THEN _setInvariant(m, value)
  ELSE IF isUnaryInstruction(value)
    THEN IF isCastInst(value) THEN isThreadInvariantCast(m, value, d)
         ELSE IF isLoadInst(value) THEN isThreadInvariantLoad(m, value, d)
         ELSE Result(FALSE, m)
  ELSE IF isBinaryOperator(value) THEN isThreadInvariantBinary(m, value, d)
  ELSE _setVariant(m, value)

\* the dispatch on the node kind after a memo miss
isThreadInvariantRules(m, value, d) ==
  IF isConstant(value) THEN _setInvariant(m, value)
  ELSE IF isUnaryInstruction(value)
    THEN IF isCastInst(value) THEN isThreadInvariantCast(m, value, d)
         ELSE IF isLoadInst(value) THEN isThreadInvariantLoad(m, value, d)
         ELSE Result(FALSE, m)
  ELSE IF isBinaryOperator(value) THEN isThreadInvariantBinary(m, value, d)
  ELSE Result(FALSE, m)

isThreadInvariant(m, value0, d) ==
  IF d > RecursionLimit THEN Overflow(m)
  ELSE LET value == walk(value0)
           memo == isThreadInvariantMemo(m, value)
       IN  IF memo = "true" THEN Result(TRUE, Enter(m, d))
           ELSE IF memo = "false" THEN Result(FALSE, Enter(m, d))
           ELSE isThreadInvariantRules(Enter(m, d), value, d)

\* the memo lookups of isAffine: "true", "false" or "miss"
isAffineMemo(m, value) ==
  IF value \in m.inv THEN "true"
  ELSE IF value \in m.aff THEN "true"
  ELSE IF value \in m.var THEN "false"
  ELSE "miss"

isAffine(m, value0, d) ==
  IF d > RecursionLimit THEN Overflow(m)
  ELSE LET value == walk(value0)
           memo == isAffineMemo(m, value)
       IN  IF memo = "true" THEN Result(TRUE, Enter(m, d))
           ELSE IF memo = "false" THEN Result(FALSE, Enter(m, d))
           ELSE IF isBinaryOperator(value)
                THEN _isBinaryOperatorAffine(Enter(m, d), value, d + 1)
                ELSE Result(FALSE, Enter(m, d))

\* which operand is expected to hold the constant: 1, 0, or -1 for neither
constantExprIndex(m, binary) ==
  IF walk(getOperand(binary, 0)) \in m.tids THEN 1
  ELSE IF walk(getOperand(binary, 1)) \in m.tids THEN 0
  ELSE -1

\* a variant of the match below that accepts any constant as the scale
isIndexScaling_AnyConstant(m, binary) ==
  LET idx == constantExprIndex(m, binary)
  IN  /\ idx >= 0
      /\ isConstantInt(getOperand(binary, idx))
      /\ \/ getOpcode(binary) = "Shl" /\ idx = 1
         \/ getOpcode(binary) = "Mul"

\* tid << 2 and tid * 4 (either order)
isIndexScaling(m, binary) ==
  LET idx == constantExprIndex(m, binary)
  IN  /\ idx >= 0
      /\ isConstantInt(getOperand(binary, idx))
      /\ \/ /\ getOpcode(binary) = "Shl"
            /\ Graph[getOperand(binary, idx)].val = 2
            /\ idx = 1
         \/ /\ getOpcode(binary) = "Mul"
            /\ Graph[getOperand(binary, idx)].val = 4

\* a variant of the conjunction below with its operands exchanged:
\* isThreadInvariant(y) && isAffine(x)
affineAndInvariant_Swapped(m, x, y, d) ==
  LET i == isThreadInvariant(m, y, d + 1)
  IN  IF i.ret THEN isAffine(i.m, x, d + 1) ELSE Result(FALSE, i.m)

\* isAffine(x) && isThreadInvariant(y), with the short circuit of &&
affineAndInvariant(m, x, y, d) ==
  LET a == isAffine(m, x, d + 1)
  IN  IF a.ret THEN isThreadInvariant(a.m, y, d + 1) ELSE Result(FALSE, a.m)

\* the addition rule: (affine, invariant), then (invariant, affine)
isAddAffine(m, binary, d) ==
  LET first == affineAndInvariant(m, getOperand(binary, 0), getOperand(binary, 1), d)
  IN  IF first.ret THEN _setAffine(first.m, binary)
      ELSE LET second == affineAndInvariant(first.m, getOperand(binary, 1),
                                            getOperand(binary, 0), d)
           IN  IF second.ret THEN _setAffine(second.m, binary)
               ELSE Result(FALSE, second.m)

_isBinaryOperatorAffine(m, binary, d) ==
  IF isIndexScaling(m, binary) THEN _setAffine(m, binary)
  ELSE IF getOpcode(binary) = "Add" THEN isAddAffine(m, binary, d)
  ELSE Result(FALSE, m)

(***************************************************************************)
(* Construction input.  The table of special arguments and its variance    *)
(* flags belong to LLVMUniformVectorization; the table ends with           *)
(* ptrThreadDescriptorArray, which the constructor's loop stops at.        *)
(***************************************************************************)
ThreadLocalArgumentInstances ==
  <<threadId_x, threadId_y, blockDim_x, ptrThreadDescriptorArray>>

\* every assignment of "varies per thread" (TRUE) / "constant" (FALSE)
ThreadLocalArgumentVarianceMaps ==
  [DOMAIN ThreadLocalArgumentInstances -> BOOLEAN]

ThreadIdComponents == {threadId_x, threadId_y}

\* module->global_begin() .. global_end()
Globals == {v \in Values : Graph[v].kind = "GlobalVariable"}

\* the loop over ThreadLocalArgumentInstances, from index i on
RECURSIVE seedArguments(_, _, _)
seedArguments(m, map, i) ==
  IF ThreadLocalArgumentInstances[i] = ptrThreadDescriptorArray THEN m
  ELSE seedArguments(
         IF ~map[i] THEN _setInvariant(m, ThreadLocalArgumentInstances[i]).m ELSE m,
         map, i + 1)

\* a variant of the seeding below that records threadId_x whatever the count
seedThreadIds_Always(m, threadIdUses) == [m EXCEPT !.tids = @ \cup {threadId_x}]

\* if (threadArguments.threadIdUses == 1) _threadIds.insert(threadId_x)
seedThreadIds(m, threadIdUses) ==
  IF threadIdUses = 1 THEN [m EXCEPT !.tids = @ \cup {threadId_x}] ELSE m

\* a variant of the seeding below that skips the globals
seedGlobals_None(m) == m

\* the loop over the module's globals
seedGlobals(m) == [m EXCEPT !.inv = @ \cup Globals]

EmptyStore ==
  [inv |-> {}, aff |-> {}, var |-> {}, tids |-> {}, depth |-> 0, overflow |-> FALSE]

\* AffineInstructionSet::AffineInstructionSet
AffineInstructionSet(map, threadIdUses) ==
  seedGlobals(seedThreadIds(seedArguments(EmptyStore, map, 1), threadIdUses))

Constructed(map, used) ==
  LET m == AffineInstructionSet(map, Cardinality(used))
  IN  /\ invariantValues = m.inv
      /\ affineValues = m.aff
      /\ variantValues = m.var
      /\ threadIds = m.tids
      /\ varianceMap = map
      /\ usedThreadIds = used
      /\ returned = {}
      /\ queries = 0

Init ==
  \E map \in ThreadLocalArgumentVarianceMaps, used \in SUBSET ThreadIdComponents :
    Constructed(map, used)

Commit(r) ==
  /\ invariantValues' = r.m.inv
  /\ affineValues' = r.m.aff
  /\ variantValues' = r.m.var
  /\ threadIds' = r.m.tids
  /\ UNCHANGED <<varianceMap, usedThreadIds>>

\* what the caller of a query observes: the pairs <<predicate, value>> that
\* have returned true so far, and the number of queries asked
Observe(fn, value, r) ==
  /\ returned' = IF r.ret THEN returned \cup {<<fn, value>>} ELSE returned
  /\ queries' = queries + 1

\* a caller asks isThreadInvariant(value)
IsThreadInvariantQuery(value) ==
  /\ queries < MaxQueries
  /\ LET r == isThreadInvariant(Store, value, 0)
     IN  Commit(r) /\ queries' = queries + 1 /\ UNCHANGED returned

\* a caller asks isAffine(value)
IsAffineQuery(value) ==
  /\ queries < MaxQueries
  /\ LET r == isAffine(Store, value, 0)
     IN  Commit(r) /\ queries' = queries + 1 /\ UNCHANGED returned

Next == \E value \in Values : IsThreadInvariantQuery(value) \/ IsAffineQuery(value)

Spec == Init /\ [][Next]_vars

\* The constructions a query can tell apart through an operand: threadId_y
\* and ptrThreadDescriptorArray are operands of no instruction of the graph,
\* so their tags stay at "varies per thread", and the constructor reads of
\* the referenced components only whether there is exactly one.
InitQ ==
  \E map \in ThreadLocalArgumentVarianceMaps :
    \E used \in {{threadId_x}, {threadId_x, threadId_y}} :
      /\ map[2] /\ map[4]
      /\ Constructed(map, used)

SpecQ == InitQ /\ [][Next]_vars

(***************************************************************************)
(* The same queries with the caller's observations recorded, from the      *)
(* construction of a kernel that references threadId_x alone on an         *)
(* architecture where thread ids vary and block dimensions do not.         *)
(***************************************************************************)
ReferenceVarianceMap == <<TRUE, TRUE, FALSE, TRUE>>

InitH == Constructed(ReferenceVarianceMap, {threadId_x})

IsThreadInvariantQueryH(value) ==
  /\ queries < MaxQueries
  /\ LET r == isThreadInvariant(Store, value, 0)
     IN  Commit(r) /\ Observe("isThreadInvariant", value, r)

IsAffineQueryH(value) ==
  /\ queries < MaxQueries
  /\ LET r == isAffine(Store, value, 0)
     IN  Commit(r) /\ Observe("isAffine", value, r)

NextH == \E value \in Values : IsThreadInvariantQueryH(value) \/ IsAffineQueryH(value)

SpecH == InitH /\ [][NextH]_vars

(***************************************************************************)
(* Properties.                                                             *)
(***************************************************************************)
\* the sets a value is a member of
Categories(inv, aff, var, tids, v) ==
  (IF v \in inv THEN {"Invariant"} ELSE {}) \cup
  (IF v \in aff THEN {"Affine"} ELSE {}) \cup
  (IF v \in var THEN {"Variant"} ELSE {}) \cup
  (IF v \in tids THEN {"ThreadIndex"} ELSE {})

Category(v) == Categories(invariantValues, affineValues, variantValues, threadIds, v)

\* the sets as the constructor left them
Seeded == AffineInstructionSet(varianceMap, Cardinality(usedThreadIds))

\* C1: no value is a member of more than one of Invariant, Affine, Variant
\* and ThreadIndex, whatever the variance flags and the thread-id use count.
C1_Disjoint == \A v \in Values : Cardinality(Category(v)) <= 1

\* C2: when isThreadInvariant(v) returns true, isAffine(v) asked next returns
\* true, for every value v (binary operators other than additions included).
C2_InvariantImpliesAffine ==
  \A v \in Values :
    LET r == isThreadInvariant(Store, v, 0)
    IN  r.ret => isAffine(r.m, v, 0).ret

\* C3: the answer to isThreadInvariant(v) and to isAffine(v) is the one the
\* freshly constructed engine gives, whatever queries were answered before.
C3_Pure ==
  \A v \in Values :
    /\ isThreadInvariant(Store, v, 0).ret = isThreadInvariant(Seeded, v, 0).ret
    /\ isAffine(Store, v, 0).ret = isAffine(Seeded, v, 0).ret

\* the sets a value is a member of after the step
CategoryNext(v) ==
  Categories(invariantValues', affineValues', variantValues', threadIds', v)

\* C4: every step only adds members to the four sets, and a value that is a
\* member of one of them is, after the step, a member of that same set and
\* of no other.
C4_Monotonic ==
  [][/\ invariantValues \subseteq invariantValues'
     /\ affineValues \subseteq affineValues'
     /\ variantValues \subseteq variantValues'
     /\ threadIds \subseteq threadIds'
     /\ \A v \in Values : \A c \in Category(v) : CategoryNext(v) = {c}]_vars

\* The part of C4 that does not rest on disjointness: the sets only grow and
\* a classified value is never classified anew (its sets stay the same).
NeverReclassified ==
  [][/\ invariantValues \subseteq invariantValues'
     /\ affineValues \subseteq affineValues'
     /\ variantValues \subseteq variantValues'
     /\ threadIds \subseteq threadIds'
     /\ \A v \in Values : Category(v) # {} => CategoryNext(v) = Category(v)]_vars

\* The queries themselves keep the sets apart: disjointness can only fail
\* through the seeding of threadId_x into both Invariant and ThreadIndex.
DisjointUnlessSeededTwice ==
  \A v \in Values :
    Cardinality(Category(v)) > 1 =>
      /\ v = threadId_x
      /\ Category(v) = {"Invariant", "ThreadIndex"}
      /\ threadId_x \in Seeded.inv /\ threadId_x \in Seeded.tids

\* C5: asking the same predicate twice in succession about the same value
\* gives the same boolean both times.
C5_Idempotent ==
  \A v \in Values :
    /\ LET r == isThreadInvariant(Store, v, 0)
       IN  isThreadInvariant(r.m, v, 0).ret = r.ret
    /\ LET r == isAffine(Store, v, 0)
       IN  isAffine(r.m, v, 0).ret = r.ret

\* a first call that returns false and yet classifies some operand
C5_Witness ==
  /\ queries > 0
  /\ \E v \in Values :
       LET r == isAffine(Store, v, 0)
       IN  ~r.ret /\ r.m.inv # invariantValues /\ r.m.aff # affineValues

\* node kinds no rule of either predicate recognizes
isUnrecognized(v) == Graph[v].kind \in {"Argument", "PHINode"}

\* C6: every query returns (its recursion stays within RecursionLimit, also
\* on the loop-carried cycle), and a value of an unrecognized kind that is in
\* no set yields false without a recursive call and without an insertion.
C6_Total ==
  \A v \in Values :
    LET ti == isThreadInvariant(Store, v, 0)
        af == isAffine(Store, v, 0)
    IN  /\ ~ti.m.overflow /\ ~af.m.overflow
        /\ ti.ret \in BOOLEAN /\ af.ret \in BOOLEAN
        /\ (isUnrecognized(walk(v)) /\ Category(walk(v)) = {}) =>
             /\ ~ti.ret /\ ti.m = Store
             /\ ~af.ret /\ af.m = Store

\* a query on the cycle recurses into the phi node and returns
C6_Witness ==
  /\ queries > 0
  /\ LET r == isThreadInvariant(Store, inc, 0)
     IN  ~r.ret /\ r.m.depth >= 1 /\ ~r.m.overflow /\ c2 \in r.m.inv

isAdd(v) == isBinaryOperator(v) /\ getOpcode(v) = "Add"

\* C7: once isAffine(a) and isThreadInvariant(b) have each returned true,
\* isAffine returns true for the addition nodes a + b and b + a.
C7_AdditiveComposition ==
  \A n \in Values : \A i \in {0, 1} :
    ( /\ isAdd(n)
      /\ <<"isAffine", getOperand(n, i)>> \in returned
      /\ <<"isThreadInvariant", getOperand(n, 1 - i)>> \in returned )
    => isAffine(Store, n, 0).ret

\* C8: with t recorded as ThreadIndex, t << 2, t * 4 and 4 * t are affine and
\* t << 3, t * 8 and 2 << t are not, also with t wrapped in no-op casts.
C8_IndexScaling ==
  threadIds = {threadId_x} =>
    /\ \A v \in {shl_tid_2, mul_tid_4, mul_4_tid, shl_cast_2} :
         isAffine(Store, v, 0).ret
    /\ \A v \in {shl_tid_3, mul_tid_8, shl_2_tid, mul_cast_8} :
         ~isAffine(Store, v, 0).ret

\* C9: with tid recorded as ThreadIndex and base seeded into Invariant, in
\* whatever order the queries are asked: isThreadInvariant(tid) is false,
\* isAffine(tid << 2) and isAffine(addr) are true, isThreadInvariant(addr) is
\* false, for addr = base + (tid << 2).
C9_EndToEnd ==
  (threadIds = {threadId_x} /\ base \in Seeded.inv) =>
    /\ ~isThreadInvariant(Store, threadId_x, 0).ret
    /\ isAffine(Store, shl_tid_2, 0).ret
    /\ isAffine(Store, addr, 0).ret
    /\ ~isThreadInvariant(Store, addr, 0).ret

\* C10: when the kernel references exactly one thread-index component, that
\* component is the one and only member of ThreadIndex.
C10_SeedThreadIndex ==
  Cardinality(usedThreadIds) = 1 => threadIds = usedThreadIds

\* C11: right after construction, a special argument of the list (the pointer
\* to the thread-descriptor block included) is a member of Invariant exactly
\* when it is tagged constant across threads.
C11_SeedArguments ==
  queries = 0 =>
    \A i \in DOMAIN ThreadLocalArgumentInstances :
      (~varianceMap[i]) <=> (ThreadLocalArgumentInstances[i] \in invariantValues)

\* The same for the entries in front of ptrThreadDescriptorArray, the entry
\* the constructor's loop stops at.
SeedArgumentsBeforeSentinel ==
  queries = 0 =>
    \A i \in DOMAIN ThreadLocalArgumentInstances :
      ThreadLocalArgumentInstances[i] # ptrThreadDescriptorArray =>
        ((~varianceMap[i]) <=> (ThreadLocalArgumentInstances[i] \in invariantValues))

\* C12: when the kernel references more than one thread-index component,
\* ThreadIndex is empty after construction and after every query, and no
\* shift or multiply node is ever a member of Affine.
C12_MultiComponent ==
  Cardinality(usedThreadIds) > 1 =>
    /\ threadIds = {}
    /\ \A v \in affineValues : getOpcode(v) \notin {"Shl", "Mul"}

\* queries have classified an addition as affine, and the scaling shapes are
\* still answered false
C12_Witness ==
  /\ Cardinality(usedThreadIds) > 1
  /\ queries > 0
  /\ affineValues # {}
  /\ ~isAffine(Store, shl_tid_2, 0).ret
  /\ ~isAffine(Store, mul_tid_4, 0).ret

\* C13: for a stripped cast (integer width, pointer/integer) around a value,
\* alone or in a chain, isThreadInvariant and isAffine give the cast the
\* answer they give the value: asked in the same state, and asked one after
\* the other in either order.
C13_CastTransparent ==
  \A c \in Values :
    isNoOpCast(c) =>
      LET v == getOperand(c, 0)
          tc == isThreadInvariant(Store, c, 0)
          tv == isThreadInvariant(Store, v, 0)
          ac == isAffine(Store, c, 0)
          av == isAffine(Store, v, 0)
      IN  /\ tc.ret = tv.ret
          /\ isThreadInvariant(tc.m, v, 0).ret = tc.ret
          /\ isThreadInvariant(tv.m, c, 0).ret = tv.ret
          /\ ac.ret = av.ret
          /\ isAffine(ac.m, v, 0).ret = ac.ret
          /\ isAffine(av.m, c, 0).ret = av.ret

\* earlier queries have changed what the wrapped values are answered, and
\* the casts follow: a cast answered not invariant and affine, a cast
\* answered affine, a cast answered invariant
C13_Witness ==
  /\ queries > 0
  /\ sum_c \in affineValues
  /\ ~isThreadInvariant(Store, trunc_sum_c, 0).ret
  /\ isAffine(Store, trunc_sum_c, 0).ret
  /\ isAffine(Store, sext_shl_tid_2, 0).ret
  /\ isThreadInvariant(Store, zext_load_base, 0).ret

\* C14: whatever was asked before, isThreadInvariant returns true for a
\* literal constant and the constant is a member of Invariant afterwards.
C14_ConstantsInvariant ==
  \A c \in Values :
    isConstantInt(c) =>
      LET r == isThreadInvariant(Store, c, 0)
      IN  r.ret /\ c \in r.m.inv

\* after some queries one literal is cached, another is still in no set and
\* is answered by the constant rule
C14_Witness ==
  /\ queries > 0
  /\ affineValues # {}
  /\ c4 \in invariantValues
  /\ Category(c2) = {}
  /\ isThreadInvariant(Store, c2, 0).ret

\* C15: every global of the module is a member of Invariant from construction
\* on, and isThreadInvariant and isAffine return true for it in every state.
C15_GlobalsInvariant ==
  \A g \in Globals :
    /\ g \in invariantValues
    /\ isThreadInvariant(Store, g, 0).ret
    /\ isAffine(Store, g, 0).ret

\* a query has classified a load through the seeded global
C15_Witness ==
  /\ queries > 0
  /\ base \in Seeded.inv
  /\ load_base \in invariantValues
  /\ isThreadInvariant(Store, base, 0).ret
  /\ isAffine(Store, base, 0).ret

\* the values reachable from the members of S through operand edges
RECURSIVE OperandsFrom(_)
OperandsFrom(S) ==
  LET T == S \cup UNION {{Graph[v].ops[i] : i \in DOMAIN Graph[v].ops} : v \in S}
  IN  IF T = S THEN S ELSE OperandsFrom(T)

\* v and everything reachable from v through operand edges, for every v
OperandClosures == [v \in Values |-> OperandsFrom({v})]

OperandClosure(v) == OperandClosures[v]

\* the values whose membership in some set differs between the state and m
Changed(m) ==
  LET Delta(A, B) == (A \ B) \cup (B \ A)
  IN  Delta(m.inv, invariantValues) \cup Delta(m.aff, affineValues) \cup
      Delta(m.var, variantValues) \cup Delta(m.tids, threadIds)

\* C16: a query about v changes the membership of no value outside the
\* operand closure of v.
C16_Frame ==
  \A v \in Values :
    /\ Changed(isThreadInvariant(Store, v, 0).m) \subseteq OperandClosure(v)
    /\ Changed(isAffine(Store, v, 0).m) \subseteq OperandClosure(v)

\* a query that classifies several values of its closure, in a state where
\* earlier queries have classified a value outside that closure
C16_Witness ==
  /\ queries > 0
  /\ \E v \in Values :
       LET a == isAffine(Store, v, 0).m
       IN  /\ a.inv # invariantValues
           /\ a.aff # affineValues
           /\ \E u \in Values \ OperandClosure(v) :
                Category(u) # {} /\ u \notin Seeded.inv \cup Seeded.tids

\* C17: isThreadInvariant on a binary operator that is in no set returns true
\* exactly when both operands are answered invariant; then both operands, as
\* written, are members of Invariant afterwards; in either case the binary
\* operator itself is in no set after the call.
C17_AsymmetricCaching ==
  \A b \in Values :
    (isBinaryOperator(b) /\ Category(b) = {}) =>
      LET r == isThreadInvariant(Store, b, 0)
          operand0 == isThreadInvariant(Store, getOperand(b, 0), 0).ret
          operand1 == isThreadInvariant(Store, getOperand(b, 1), 0).ret
      IN  /\ r.ret = (operand0 /\ operand1)
          /\ r.ret => {getOperand(b, 0), getOperand(b, 1)} \subseteq r.m.inv
          /\ Categories(r.m.inv, r.m.aff, r.m.var, r.m.tids, b) = {}

\* an addition whose operand is written as a cast: the call returns true and
\* inserts the cast, not the addition; another addition is answered false
C17_Witness ==
  /\ queries > 0
  /\ Category(add_zext_bdim) = {}
  /\ zext_bdim \notin invariantValues
  /\ LET r == isThreadInvariant(Store, add_zext_bdim, 0)
     IN  r.ret /\ zext_bdim \in r.m.inv /\ add_zext_bdim \notin r.m.inv
  /\ Category(addr) = {}
  /\ ~isThreadInvariant(Store, addr, 0).ret

\* the rules of isThreadInvariant without the memo sets: seeded, a constant,
\* a cast or a load of an invariant operand, a binary operator of two
\* invariant operands
RECURSIVE StructurallyInvariant(_, _)
StructurallyInvariant(seeded, v) ==
  \/ v \in seeded
  \/ isConstant(v)
  \/ /\ isCastInst(v) \/ isLoadInst(v)
     /\ StructurallyInvariant(seeded, getOperand(v, 0))
  \/ /\ isBinaryOperator(v)
     /\ StructurallyInvariant(seeded, getOperand(v, 0))
     /\ StructurallyInvariant(seeded, getOperand(v, 1))

\* C18: every member of Invariant is invariant by the memo-free structural
\* rules; and when the ThreadIndex value was not seeded as invariant, no
\* member of Invariant has it in its operand closure.
C18_InvariantSound ==
  /\ \A v \in invariantValues : StructurallyInvariant(Seeded.inv, v)
  /\ (threadIds \cap Seeded.inv = {}) =>
       \A v \in invariantValues : OperandClosure(v) \cap threadIds = {}

\* queries have put a binary operator, a load and a cast into Invariant
\* while threadId_x is the ThreadIndex value and was not seeded invariant
C18_Witness ==
  /\ threadIds = {threadId_x}
  /\ threadId_x \notin Seeded.inv
  /\ {prod_c, load_base, bitcast_base} \subseteq invariantValues

\* ThreadIndex << 2 (the ThreadIndex value first), ThreadIndex * 4 and
\* 4 * ThreadIndex, the ThreadIndex value possibly under stripped casts
isScaledThreadIndex(v) ==
  LET x == getOperand(v, 0)
      y == getOperand(v, 1)
      isLiteral(o, n) == isConstantInt(o) /\ Graph[o].val = n
  IN  \/ getOpcode(v) = "Shl" /\ walk(x) \in threadIds /\ isLiteral(y, 2)
      \/ /\ getOpcode(v) = "Mul"
         /\ \/ walk(x) \in threadIds /\ isLiteral(y, 4)
            \/ walk(y) \in threadIds /\ isLiteral(x, 4)

\* the rules of _isBinaryOperatorAffine without the memo sets: the index
\* scaling of the ThreadIndex value, or an addition of an operand that is
\* affine or invariant and an operand that is invariant
RECURSIVE StructurallyAffine(_, _)
StructurallyAffine(seeded, v) ==
  LET x == getOperand(v, 0)
      y == getOperand(v, 1)
      AffineOrInvariant(o) ==
        StructurallyInvariant(seeded, o) \/ StructurallyAffine(seeded, walk(o))
  IN  /\ isBinaryOperator(v)
      /\ \/ isScaledThreadIndex(v)
         \/ /\ getOpcode(v) = "Add"
            /\ \/ AffineOrInvariant(x) /\ StructurallyInvariant(seeded, y)
               \/ AffineOrInvariant(y) /\ StructurallyInvariant(seeded, x)

\* C19: every member of Affine is a binary operator: ThreadIndex << 2, or a
\* multiply of ThreadIndex and 4, or an addition of an affine operand and an
\* invariant operand; and an addition a query inserts is inserted because
\* isAffine held for one operand and isThreadInvariant for the other.
C19_AffineSound ==
  /\ \A v \in affineValues : StructurallyAffine(Seeded.inv, v)
  /\ \A n \in Values :
       (isAdd(n) /\ Category(n) = {}) =>
         LET r == isAffine(Store, n, 0)
             first == affineAndInvariant(Store, getOperand(n, 0), getOperand(n, 1), 1)
             second == affineAndInvariant(first.m, getOperand(n, 1), getOperand(n, 0), 1)
         IN  (n \in r.m.aff) <=> (first.ret \/ second.ret)

\* queries have put both scaling shapes and two additions into Affine
C19_Witness ==
  /\ threadIds = {threadId_x}
  /\ {shl_tid_2, mul_4_tid, addr} \subseteq affineValues
  /\ \E n \in Values :
       /\ isAdd(n) /\ Category(n) = {}
       /\ n \in isAffine(Store, n, 0).m.aff

\* the sets a value is a member of in the store m
CategoryIn(m, v) == Categories(m.inv, m.aff, m.var, m.tids, v)

===============================================================================
